---- MODULE Spec2Model ----
(***************************************************************************)
(* The client (sender) side of one libdrop transfer session: the v5 and    *)
(* the v2 HandlerLoop of drop-transfer/src/ws/client, together with the    *)
(* collaborators they call (transfer manager, per-file event sink, upload  *)
(* and checksum jobs, the generic receive loop).                           *)
(***************************************************************************)
EXTENDS Integers, Sequences, FiniteSets, TLC

VARIABLES
    ver,        \* negotiated protocol version of the session: 5 or 2
    loop,       \* position of the handler loop
    tasks,      \* HandlerLoop::tasks : FileId -> FileTask
    done,       \* HandlerLoop::done (v5)
    mgr,        \* transfer manager: terminal state recorded per file (v5)
    sink,       \* per file event sink: TRUE once it took a terminal call
    events,     \* everything delivered to the application's event channel
    sent,       \* frames the last step handed to the channel towards the peer
    reqs,       \* requests of the embedding API waiting for the loop
    chk,        \* checksum jobs spawned by on_checksum: limit, or -1
    calls,      \* per file: the manager's terminal calls (made, answered Some, state of the first)
    nmsg,       \* number of inbound frames handled so far
    PING,       \* const PING of the v2 loop (always TRUE for v5)
    failure,    \* why the loop failed, "" while it has not
    last_recv_elapsed,  \* time since the last received frame
    waited,     \* time spent waiting in the current loop iteration
    timeout,    \* recv_timeout() of the current iteration: {} is None, {d} is Some(d)
    Config_connection_retries,  \* norddrop Config::connection_retries: {} is None, {n} is Some(n)
    config_transfer_idle_lifetime,  \* DropConfig::transfer_idle_lifetime of the instance
    attempt,    \* re-dials that failed since the connection was lost
    wait,       \* the reconnection driver's current backoff, in units of 100 ms
    ledger,     \* per file: what the ledger holds of a failed transfer ("" or "failed")
    queue,      \* the transfer's outbound queue (upload_tx / upload_rx)
    produced,   \* per file: chunks its upload jobs handed to the queue
    written,    \* per file: chunks the channel writer took from the queue
    orphans,    \* upload jobs that were running when their loop was dropped
    chunk_ret,  \* per file: what the last Uploader::chunk returned, "" before the first
    budget,     \* how many inbound frames and requests the session's peer and API make
    mutex,      \* norddrop.0: the caller that holds the instance's mutex, "-" when free
    poisoned,   \* whether a holder of the mutex panicked
    pc          \* per caller of the embedding API: where it is in its call

\* the reconnection driver's and the outbound queue's part of the state
driver == <<Config_connection_retries, config_transfer_idle_lifetime, attempt, wait, ledger>>
upload == <<queue, produced, written, orphans, chunk_ret>>

\* the embedding API's part of the state
ffi == <<mutex, poisoned, pc>>

\* the transfer's session
session == <<ver, loop, tasks, done, mgr, sink, events, sent, reqs, chk, calls,
             nmsg, PING, failure, last_recv_elapsed, waited, timeout,
             driver, upload, budget>>

vars == <<session, ffi>>

-----------------------------------------------------------------------------
(* Bounds *)

Files == {"f1", "f2"}
\* threads of the application that call into one instance
Callers == {"t1", "t2"}
FileSize == 1
MaxMsgs == 3
MaxElapsed == 5

\* byte counts a peer may name: none, the whole file, one byte too many
Bytes == {0, FileSize, FileSize + 1}
\* offsets a peer may start at: the beginning or the end of the file
Offsets == {0, FileSize}

\* the longest idle lifetime a configuration names, in the clock's smallest unit
MaxLifetime == 4
\* the largest number of retries an application configures explicitly
MaxRetries == 2
\* the most chunks the upload jobs of one file produce
MaxChunks == 3

(* Program constants; the idle lifetime of 60 s in units of 15 s *)
transfer_idle_lifetime == 4

\* DropConfig::default().connection_max_retry_interval: 10 s in units of 100 ms
connection_max_retry_interval == 100
\* Config::default_connection_retries()
default_connection_retries == 5
\* the first backoff of the reconnection driver: 0.2 s in units of 100 ms
initial_wait == 2
\* capacity of the outbound queue
QueueDepth == 4
\* the longest wait for the outbound queue of a closing session: 2 s in seconds
drain_deadline == 2

-----------------------------------------------------------------------------
(* Values *)

NoTask == [job |-> "none", offset |-> 0]
NewTask(off) == [job |-> "running", offset |-> off]

AlreadyInProgress == "Transfer already in progress"
FileTerminated == "File is in terminal state"
StartFailed == "Failed to start upload"
FailedElsewhere == "File failed elsewhere"
ChecksumFailed == "Failed to compute checksum"

\* n: the byte count of a progress event, 1/0 for by_peer; s: the error
FileEv(k, f, a) == [kind |-> k, file |-> f, n |-> a, s |-> ""]
XferEv(k, a, why) == [kind |-> k, file |-> "-", n |-> a, s |-> why]
B2N(b) == IF b THEN 1 ELSE 0

TerminalKinds == {"FileUploaded", "FileCanceled", "FileRejected", "FileFailed"}
XferKinds == {"TransferCanceled", "TransferFailed"}

ErrorMsg(f, m) == [type |-> "Error", file |-> f, msg |-> m, n |-> 0]
RejectMsg(f) == [type |-> "Reject", file |-> f, msg |-> "", n |-> 0]
CancelMsg(f) == [type |-> "Cancel", file |-> f, msg |-> "", n |-> 0]
ReportChsum(f, l) == [type |-> "ReportChsum", file |-> f, msg |-> "", n |-> l]

(* The state a handler works on, threaded through the calls it makes. *)
Cur == [tasks |-> tasks, done |-> done, mgr |-> mgr, sink |-> sink,
        events |-> events, sent |-> <<>>, calls |-> calls, err |-> "",
        elapsed |-> last_recv_elapsed]

is_finished(t) == t.job = "finished"

-----------------------------------------------------------------------------
(* File event sink (ws::events::FileEventTx) *)

\* a terminal call: delivered once, later calls are dropped
SinkStop(st, f, ev) ==
    IF st.sink[f] THEN st
    ELSE [st EXCEPT !.sink[f] = TRUE, !.events = Append(@, ev)]

\* a non-terminal call: delivered unless the sink is already terminal
SinkEmit(st, f, ev) ==
    IF st.sink[f] THEN st ELSE [st EXCEPT !.events = Append(@, ev)]

stop_silent(st, f) == [st EXCEPT !.sink[f] = TRUE]

progress(st, f, n) == SinkEmit(st, f, FileEv("FileProgress", f, n))
success(st, f) == SinkStop(st, f, FileEv("FileUploaded", f, 0))
cancelled(st, f, by_peer) == SinkStop(st, f, FileEv("FileCanceled", f, B2N(by_peer)))
rejected(st, f, by_peer) == SinkStop(st, f, FileEv("FileRejected", f, B2N(by_peer)))
failed(st, f) == SinkStop(st, f, FileEv("FileFailed", f, 0))
pause(st, f) == SinkEmit(st, f, FileEv("FilePaused", f, 0))

-----------------------------------------------------------------------------
(* Transfer manager *)

\* Ok(Some(..)) for the first terminal call on a file, Ok(None) afterwards
TerminalRecvIsFirst(st, f) == st.mgr[f] = "None"

NoCalls == [made |-> 0, some |-> 0, first |-> "None"]

\* the record of a terminal call on a file: how many were made, how many
\* were answered Ok(Some(..)), and the state the first of them asked for
Called(c, state, res) ==
    [made |-> IF c.made < 2 THEN c.made + 1 ELSE 2,
     some |-> IF res = "Some" /\ c.some < 2 THEN c.some + 1 ELSE c.some,
     first |-> IF c.made = 0 THEN state ELSE c.first]

\* a manager without the latch: every terminal call is taken
outgoing_terminal_recv_overwrite(st, f, state) ==
    [st EXCEPT !.mgr[f] = state, !.calls[f] = Called(@, state, "Some")]

outgoing_terminal_recv(st, f, state) ==
    IF TerminalRecvIsFirst(st, f)
    THEN [st EXCEPT !.mgr[f] = state, !.calls[f] = Called(@, state, "Some")]
    ELSE [st EXCEPT !.calls[f] = Called(@, state, "None")]

outgoing_ensure_file_not_terminated(st, f) == st.mgr[f] = "None"

\* Ok(..) and the file marked failed, or Err when it is terminal already
outgoing_failure_post(st, f) ==
    IF st.mgr[f] = "None"
    THEN [st EXCEPT !.mgr[f] = "Failed", !.calls[f] = Called(@, "Failed", "Some")]
    ELSE [st EXCEPT !.calls[f] = Called(@, "Failed", "Err")]

\* the manager's side of reject_file of the embedding API
outgoing_rejection_post(st, f) ==
    IF st.mgr[f] = "None"
    THEN [st EXCEPT !.mgr[f] = "Rejected", !.calls[f] = Called(@, "Rejected", "Some")]
    ELSE [st EXCEPT !.calls[f] = Called(@, "Rejected", "Err")]

-----------------------------------------------------------------------------
(* v5 HandlerLoop *)

\* on_cancel that reports the cancellation of a finished job too
on_cancel_any_task(st, f, by_peer) ==
    IF st.tasks[f] = NoTask THEN st
    ELSE cancelled([st EXCEPT !.tasks[f] = NoTask], f, by_peer)

on_cancel(st, f, by_peer) ==
    IF st.tasks[f] = NoTask THEN st
    ELSE LET s1 == [st EXCEPT !.tasks[f] = NoTask]
         IN  IF ~is_finished(st.tasks[f]) THEN cancelled(s1, f, by_peer) ELSE s1

stop_task(st, f) ==
    IF st.tasks[f] = NoTask THEN st
    ELSE LET s1 == [st EXCEPT !.tasks[f] = NoTask]
         IN  IF ~is_finished(st.tasks[f]) THEN stop_silent(s1, f) ELSE s1

on_reject(st, f) ==
    LET s1 == outgoing_terminal_recv(st, f, "Rejected")
        s2 == IF TerminalRecvIsFirst(st, f) THEN rejected(s1, f, TRUE) ELSE s1
    IN  stop_task(s2, f)

on_progress(st, f, n) ==
    IF st.tasks[f] # NoTask THEN progress(st, f, n) ELSE st

\* on_done that leaves the task of the file in the map
on_done_keep_task(st, f) ==
    LET s1 == outgoing_terminal_recv(st, f, "Completed")
        s2 == IF s1.tasks[f] # NoTask THEN success(s1, f)
              ELSE IF f \notin s1.done
                   THEN [s1 EXCEPT !.events = Append(@, FileEv("FileUploaded", f, 0))]
                   ELSE s1
    IN  [s2 EXCEPT !.done = @ \cup {f}]

\* on_done that does not look at the done set
on_done_forgetful(st, f) ==
    LET s1 == outgoing_terminal_recv(st, f, "Completed")
        s2 == IF s1.tasks[f] # NoTask
                THEN success([s1 EXCEPT !.tasks[f] = NoTask], f)
                ELSE [s1 EXCEPT !.events = Append(@, FileEv("FileUploaded", f, 0))]
    IN  [s2 EXCEPT !.done = @ \cup {f}]

on_done(st, f) ==
    LET s1 == outgoing_terminal_recv(st, f, "Completed")
        s2 == IF s1.tasks[f] # NoTask
                THEN success([s1 EXCEPT !.tasks[f] = NoTask], f)
                ELSE IF f \notin s1.done
                     THEN [s1 EXCEPT !.events = Append(@, FileEv("FileUploaded", f, 0))]
                     ELSE s1
    IN  [s2 EXCEPT !.done = @ \cup {f}]

\* on_error that takes the error of one file for the end of every task
on_error_stop_all(st, fopt) ==
    IF fopt \notin Files THEN st
    ELSE LET s1 == outgoing_terminal_recv(st, fopt, "Failed")
             s2 == IF TerminalRecvIsFirst(st, fopt) THEN failed(s1, fopt) ELSE s1
         IN  [s2 EXCEPT !.tasks = [f \in Files |-> NoTask]]

\* on_error that takes an error without a file for the end of every task
on_error_transfer_wide(st, fopt) ==
    IF fopt \notin Files THEN [st EXCEPT !.tasks = [f \in Files |-> NoTask]]
    ELSE LET s1 == outgoing_terminal_recv(st, fopt, "Failed")
             s2 == IF TerminalRecvIsFirst(st, fopt) THEN failed(s1, fopt) ELSE s1
         IN  stop_task(s2, fopt)

on_error(st, fopt) ==
    IF fopt \notin Files THEN st
    ELSE LET s1 == outgoing_terminal_recv(st, fopt, "Failed")
             s2 == IF TerminalRecvIsFirst(st, fopt) THEN failed(s1, fopt) ELSE s1
         IN  stop_task(s2, fopt)

\* the error of the inner `start` block, or "" when the upload was started
StartError(st, f, spawn_ok) ==
    IF ~outgoing_ensure_file_not_terminated(st, f) THEN FileTerminated
    ELSE IF st.tasks[f] # NoTask /\ ~is_finished(st.tasks[f]) THEN AlreadyInProgress
    ELSE IF ~spawn_ok THEN StartFailed
    ELSE ""

\* on_start without the is_finished test: a running task is replaced
on_start_replace_running(st, f, offset, spawn_ok, send_ok) ==
    LET e == IF ~outgoing_ensure_file_not_terminated(st, f) THEN FileTerminated
             ELSE IF ~spawn_ok THEN StartFailed ELSE ""
    IN  IF e = ""
        THEN [st EXCEPT !.tasks[f] = NewTask(offset), !.done = @ \ {f}]
        ELSE [st EXCEPT !.sent = Append(@, ErrorMsg(f, e)),
                        !.err = IF send_ok THEN "" ELSE "SendError"]

\* on_start without the not-terminated check
on_start_unchecked(st, f, offset, spawn_ok, send_ok) ==
    LET e == IF st.tasks[f] # NoTask /\ ~is_finished(st.tasks[f]) THEN AlreadyInProgress
             ELSE IF ~spawn_ok THEN StartFailed ELSE ""
    IN  IF e = ""
        THEN [st EXCEPT !.tasks[f] = NewTask(offset), !.done = @ \ {f}]
        ELSE [st EXCEPT !.sent = Append(@, ErrorMsg(f, e)),
                        !.err = IF send_ok THEN "" ELSE "SendError"]

\* on_start that spawns every upload at the beginning of the file
on_start_from_zero(st, f, offset, spawn_ok, send_ok) ==
    LET e == StartError(st, f, spawn_ok) IN
    IF e = ""
    THEN [st EXCEPT !.tasks[f] = NewTask(0), !.done = @ \ {f}]
    ELSE [st EXCEPT !.sent = Append(@, ErrorMsg(f, e)),
                    !.err = IF send_ok THEN "" ELSE "SendError"]

on_start(st, f, offset, spawn_ok, send_ok) ==
    LET e == StartError(st, f, spawn_ok) IN
    IF e = ""
    THEN [st EXCEPT !.tasks[f] = NewTask(offset), !.done = @ \ {f}]
    ELSE [st EXCEPT !.sent = Append(@, ErrorMsg(f, e)),
                    !.err = IF send_ok THEN "" ELSE "SendError"]

\* a checksum job that reports a failure to the application only
checksum_task_silent(st, f, limit, io_ok) ==
    LET ok == outgoing_ensure_file_not_terminated(st, f) /\ io_ok
        s1 == outgoing_failure_post(st, f)
        s2 == IF st.mgr[f] = "None" THEN failed(s1, f) ELSE s1
    IN  IF ok THEN [st EXCEPT !.sent = <<ReportChsum(f, limit)>>] ELSE s2

\* a checksum job that does not ask the manager about the file
checksum_task_unchecked(st, f, limit, io_ok) ==
    LET s1 == outgoing_failure_post(st, f)
        s2 == IF st.mgr[f] = "None" THEN failed(s1, f) ELSE s1
    IN  IF io_ok THEN [st EXCEPT !.sent = <<ReportChsum(f, limit)>>]
        ELSE [s2 EXCEPT !.sent = <<ErrorMsg(f, ChecksumFailed)>>]

\* the job on_checksum spawns: make_report, then the report or an Error
checksum_task(st, f, limit, io_ok) ==
    LET ok == outgoing_ensure_file_not_terminated(st, f) /\ io_ok
        s1 == outgoing_failure_post(st, f)
        s2 == IF st.mgr[f] = "None" THEN failed(s1, f) ELSE s1
        msg == IF st.mgr[f] = "None" THEN ChecksumFailed ELSE FileTerminated
    IN  IF ok THEN [st EXCEPT !.sent = <<ReportChsum(f, limit)>>]
        ELSE [s2 EXCEPT !.sent = <<ErrorMsg(f, msg)>>]

RECURSIVE StopAll(_, _)
StopAll(st, fs) ==
    IF fs = {} THEN st
    ELSE LET f == CHOOSE x \in fs : TRUE
             s1 == IF st.tasks[f] # NoTask
                    THEN stop_silent([st EXCEPT !.tasks[f] = NoTask], f)
                    ELSE st
         IN  StopAll(s1, fs \ {f})

\* on_stop that drains the task map without stopping the sinks
on_stop_keep_sinks(st) == [st EXCEPT !.tasks = [f \in Files |-> NoTask]]

on_stop(st) == StopAll(st, Files)

\* on_close that tells the application of every close
on_close_always(st, by_peer) ==
    LET s1 == on_stop(st)
    IN  [s1 EXCEPT !.events = Append(@, XferEv("TransferCanceled", B2N(by_peer), ""))]

on_close(st, by_peer) ==
    LET s1 == on_stop(st) IN
    IF by_peer
    THEN [s1 EXCEPT !.events = Append(@, XferEv("TransferCanceled", B2N(by_peer), ""))]
    ELSE s1

\* a subtraction that does not saturate
plain_sub(a, b) == a - b

\* Duration::saturating_sub
saturating_sub(a, b) == IF b >= a THEN 0 ELSE a - b

recv_timeout(elapsed) == {saturating_sub(config_transfer_idle_lifetime, elapsed)}

\* issue_reject that stops the task before it sends the frame
issue_reject_stop_first(st, f, send_ok) ==
    LET s1 == stop_task([st EXCEPT !.sent = Append(@, RejectMsg(f))], f) IN
    IF send_ok THEN s1 ELSE [s1 EXCEPT !.err = "SendError"]

issue_reject(st, f, send_ok) ==
    LET s1 == [st EXCEPT !.sent = Append(@, RejectMsg(f))] IN
    IF send_ok THEN stop_task(s1, f) ELSE [s1 EXCEPT !.err = "SendError"]

issue_faliure(st, f, send_ok) ==
    [st EXCEPT !.sent = Append(@, ErrorMsg(f, FailedElsewhere)),
               !.err = IF send_ok THEN "" ELSE "SendError"]

-----------------------------------------------------------------------------
(* v2 HandlerLoop *)

\* an init that resumes where the file ends
v2_Uploader_init_resume(f) == FileSize

\* Uploader::init
v2_Uploader_init(f) == 0

\* FileTask::new: a new job with an event sink of its own
FileTask_new(st, f) ==
    [st EXCEPT !.tasks[f] = NewTask(v2_Uploader_init(f)), !.sink[f] = FALSE]

\* an on_cancel that reports a cancellation whether or not a task is there
v2_on_cancel_always(st, f) ==
    SinkStop([st EXCEPT !.tasks[f] = NoTask], f, FileEv("FileCanceled", f, 0))

v2_on_cancel(st, f) ==
    IF st.tasks[f] = NoTask THEN st
    ELSE LET s1 == [st EXCEPT !.tasks[f] = NoTask]
         IN  IF ~is_finished(st.tasks[f])
             THEN SinkStop(s1, f, FileEv("FileCanceled", f, 0))
             ELSE s1

issue_cancel(st, f, send_ok) ==
    LET s1 == [st EXCEPT !.sent = Append(@, CancelMsg(f))] IN
    IF send_ok THEN v2_on_cancel(s1, f) ELSE [s1 EXCEPT !.err = "SendError"]

v2_on_progress(st, f, n) ==
    IF st.tasks[f] # NoTask
    THEN SinkEmit(st, f, FileEv("FileProgress", f, n))
    ELSE st

v2_on_done(st, f) ==
    IF st.tasks[f] # NoTask
    THEN SinkStop([st EXCEPT !.tasks[f] = NoTask], f, FileEv("FileUploaded", f, 0))
    ELSE st

\* on_download that answers a Start for a running task as the v5 loop does
on_download_reply(st, f, spawn_ok) ==
    IF st.tasks[f] # NoTask /\ ~is_finished(st.tasks[f])
    THEN [st EXCEPT !.sent = Append(@, ErrorMsg(f, AlreadyInProgress))]
    ELSE IF spawn_ok THEN FileTask_new(st, f) ELSE st

on_download(st, f, spawn_ok) ==
    IF st.tasks[f] # NoTask /\ ~is_finished(st.tasks[f]) THEN st
    ELSE IF spawn_ok THEN FileTask_new(st, f) ELSE st

v2_on_error(st, fopt) ==
    IF fopt \notin Files \/ st.tasks[fopt] = NoTask THEN st
    ELSE LET s1 == [st EXCEPT !.tasks[fopt] = NoTask]
         IN  IF ~is_finished(st.tasks[fopt])
             THEN SinkStop(s1, fopt, FileEv("FileFailed", fopt, 0))
             ELSE s1

v2_on_stop(st) == StopAll(st, Files)

v2_on_close(st, by_peer) ==
    LET s1 == v2_on_stop(st)
    IN  [s1 EXCEPT !.events = Append(@, XferEv("TransferCanceled", B2N(by_peer), ""))]

\* the type of the value an anyhow::Error of the loop holds: the errors the
\* crate raises itself, the errors of the socket, and everything else (a
\* frame that does not deserialize, with its context)
downcast(why) ==
    IF why \in {"TransferTimeout", "ConnectionLost", "Canceled"} THEN "crate::Error"
    ELSE IF why = "SendError" THEN "tungstenite::Error"
    ELSE "other"

\* impl From<tungstenite::Error> for crate::Error
WsError == "WsClient"

BadTransferState == "BadTransferState"

\* a finalize_failure that reports the loop's error as it got it
finalize_failure_as_is(st, why) ==
    [st EXCEPT !.events = Append(@, XferEv("TransferFailed", 0, why))]

finalize_failure(st, why) ==
    LET err == IF downcast(why) = "crate::Error" THEN why
               ELSE IF downcast(why) = "tungstenite::Error" THEN WsError
               ELSE BadTransferState
    IN  [st EXCEPT !.events = Append(@, XferEv("TransferFailed", 0, err))]

v2_recv_timeout(ping, elapsed) ==
    IF ping THEN {saturating_sub(config_transfer_idle_lifetime, elapsed)} ELSE {}

\* on_recv: every frame, of whatever kind, restarts the idle time
last_recv_now(st, frame) == [st EXCEPT !.elapsed = 0]

RECURSIVE PauseAll(_, _)
PauseAll(st, fs) ==
    IF fs = {} THEN st
    ELSE LET f == CHOOSE x \in fs : TRUE
             s1 == IF st.tasks[f] # NoTask
                    THEN pause([st EXCEPT !.tasks[f] = NoTask], f)
                    ELSE st
         IN  PauseAll(s1, fs \ {f})

\* a drop that stops the tasks the way on_stop does
drop_v5_stop(st) == StopAll(st, Files)

\* Uploader::offset
Uploader_offset(t) == t.offset

\* impl Drop for HandlerLoop
drop_v5(st) == PauseAll(st, Files)
drop_v2(st) == [st EXCEPT !.tasks = [f \in Files |-> NoTask]]

-----------------------------------------------------------------------------
(* The session *)

RecvTimeout(elapsed) ==
    IF ver = 5 THEN recv_timeout(elapsed) ELSE v2_recv_timeout(PING, elapsed)

\* no call of the embedding API under way
InitFfi ==
    /\ mutex = "-"
    /\ poisoned = FALSE
    /\ pc = [t \in Callers |-> [at |-> "idle", op |-> "-"]]

\* nothing lost, nothing queued
InitRest ==
    /\ InitFfi
    /\ attempt = 0
    /\ wait = initial_wait
    /\ ledger = [f \in Files |-> ""]
    /\ queue = <<>>
    /\ produced = [f \in Files |-> 0]
    /\ written = [f \in Files |-> 0]
    /\ orphans = {}
    /\ chunk_ret = [f \in Files |-> ""]

\* the transfer's state when its channel is there: nothing started, nothing
\* recorded, nothing delivered
InitHandler ==
    /\ ver \in {5, 2}
    /\ PING \in BOOLEAN
    /\ ver = 5 => PING
    /\ tasks = [f \in Files |-> NoTask]
    /\ done = {}
    /\ mgr = [f \in Files |-> "None"]
    /\ sink = [f \in Files |-> FALSE]
    /\ events = <<>>
    /\ sent = <<>>
    /\ reqs = {}
    /\ chk = [f \in Files |-> -1]
    /\ calls = [f \in Files |-> NoCalls]
    /\ nmsg = 0
    /\ failure = ""
    /\ last_recv_elapsed = 0
    /\ waited = 0
    /\ timeout = RecvTimeout(0)

\* the HandlerLoop after upgrade()
InitLoop ==
    /\ loop = "running"
    /\ InitHandler

\* DropConfig::default()
DefaultConfig == config_transfer_idle_lifetime = transfer_idle_lifetime

\* a session of an application that configured no retry count
Init ==
    /\ Config_connection_retries = {}
    /\ DefaultConfig
    /\ budget = MaxMsgs
    /\ InitRest
    /\ InitLoop

\* what a handler leaves behind; a handler that returned Err fails the loop
Commit(st) ==
    /\ tasks' = st.tasks
    /\ done' = st.done
    /\ mgr' = st.mgr
    /\ sink' = st.sink
    /\ events' = st.events
    /\ sent' = st.sent
    /\ calls' = st.calls
    /\ loop' = IF st.err # "" THEN "failing" ELSE loop
    /\ failure' = st.err

\* the loop starts its next iteration
Iterate(elapsed) ==
    /\ last_recv_elapsed' = elapsed
    /\ waited' = 0
    /\ timeout' = RecvTimeout(elapsed)

\* the handler's state when a frame of the given kind has arrived
Got(frame) == last_recv_now(Cur, frame)

\* a frame arrived and was handled (v2: on_recv, v5: on_text_msg)
Recv(st) ==
    /\ loop = "running"
    /\ nmsg < budget
    /\ nmsg' = nmsg + 1
    /\ Commit(st)
    /\ Iterate(st.elapsed)
    /\ UNCHANGED <<ffi, driver, upload, budget, ver, PING, reqs>>

RecvStart(f, offset, spawn_ok, send_ok) ==
    /\ ver = 2 => offset = 0 /\ send_ok
    /\ Recv(IF ver = 5 THEN on_start(Got("Text"), f, offset, spawn_ok, send_ok)
                       ELSE on_download(Got("Text"), f, spawn_ok))
    /\ UNCHANGED chk

RecvProgress(f, n) ==
    /\ Recv(IF ver = 5 THEN on_progress(Got("Text"), f, n) ELSE v2_on_progress(Got("Text"), f, n))
    /\ UNCHANGED chk

RecvDone(f) ==
    /\ Recv(IF ver = 5 THEN on_done(Got("Text"), f) ELSE v2_on_done(Got("Text"), f))
    /\ UNCHANGED chk

RecvCancel(f) ==
    /\ Recv(IF ver = 5 THEN on_cancel(Got("Text"), f, TRUE) ELSE v2_on_cancel(Got("Text"), f))
    /\ UNCHANGED chk

RecvError(fopt) ==
    /\ Recv(IF ver = 5 THEN on_error(Got("Text"), fopt) ELSE v2_on_error(Got("Text"), fopt))
    /\ UNCHANGED chk

RecvReject(f) ==
    /\ ver = 5
    /\ Recv(on_reject(Got("Text"), f))
    /\ UNCHANGED chk

\* on_checksum: the report is made by a job of its own
RecvReqChsum(f, limit) ==
    /\ ver = 5
    /\ chk[f] = -1
    /\ Recv(Got("Text"))
    /\ chk' = [chk EXCEPT ![f] = limit]

\* Ping, Pong
RecvPing ==
    /\ Recv(Got("Ping"))
    /\ UNCHANGED chk

\* a text frame that does not deserialize to a server message
RecvInvalid ==
    /\ Recv([Got("Text") EXCEPT !.err = "BadMessage"])
    /\ UNCHANGED chk

RecvClose ==
    /\ loop = "running"
    /\ nmsg < budget
    /\ nmsg' = nmsg + 1
    /\ LET st == IF ver = 5 THEN on_close(Got("Close"), TRUE)
                             ELSE v2_on_close(Got("Close"), TRUE)
       IN  /\ tasks' = st.tasks
           /\ sink' = st.sink
           /\ events' = st.events
           /\ sent' = st.sent
           /\ last_recv_elapsed' = st.elapsed
    /\ loop' = "closed"
    /\ UNCHANGED <<ffi, driver, upload, budget, ver, PING, done, mgr, reqs, chk, calls, failure, waited, timeout>>

\* the idle time when the loop has been busy for d
Later(d) ==
    IF last_recv_elapsed + d > MaxElapsed THEN MaxElapsed ELSE last_recv_elapsed + d

\* a request of the embedding API reaches the loop, which serves it in time d
Req(st, d) ==
    /\ loop = "running"
    /\ Commit(st)
    /\ Iterate(Later(d))
    /\ UNCHANGED <<ffi, driver, upload, budget, ver, PING, chk>>

\* reject_file of the embedding API: recorded and emitted by the caller,
\* then handed to the loop
ApiRejectFile(f) ==
    /\ ver = 5
    /\ loop = "running"
    /\ mgr[f] = "None"
    /\ LET st == rejected(outgoing_rejection_post(Cur, f), f, FALSE)
       IN  /\ mgr' = st.mgr
           /\ sink' = st.sink
           /\ events' = st.events
           /\ calls' = st.calls
    /\ reqs' = reqs \cup {f}
    /\ sent' = <<>>
    /\ UNCHANGED <<ffi, driver, upload, budget, ver, PING, loop, tasks, done, chk, nmsg, failure,
                   last_recv_elapsed, waited, timeout>>

IssueReject(f, send_ok, d) ==
    /\ ver = 5
    /\ f \in reqs
    /\ reqs' = reqs \ {f}
    /\ Req(issue_reject(Cur, f, send_ok), d)
    /\ UNCHANGED nmsg

\* v2: ClientReq::Cancel, bounded like the inbound frames
IssueCancel(f, send_ok, d) ==
    /\ ver = 2
    /\ nmsg < budget
    /\ nmsg' = nmsg + 1
    /\ Req(issue_cancel(Cur, f, send_ok), d)
    /\ UNCHANGED reqs

\* the API closes the session
LocalClose ==
    /\ loop = "running"
    /\ LET st == IF ver = 5 THEN on_close(Cur, FALSE) ELSE v2_on_close(Cur, FALSE)
       IN  /\ tasks' = st.tasks
           /\ sink' = st.sink
           /\ events' = st.events
           /\ sent' = st.sent
    /\ loop' = "closed"
    /\ UNCHANGED <<ffi, driver, upload, budget, ver, PING, done, mgr, reqs, chk, calls, nmsg, failure,
                   last_recv_elapsed, waited, timeout>>

\* the job spawned by on_checksum reports
ChecksumJob(f, io_ok) ==
    /\ chk[f] # -1
    /\ loop # "dropped"
    /\ chk' = [chk EXCEPT ![f] = -1]
    /\ LET st == checksum_task(Cur, f, chk[f], io_ok)
       IN  /\ mgr' = st.mgr
           /\ sink' = st.sink
           /\ events' = st.events
           /\ calls' = st.calls
           /\ sent' = st.sent
    /\ UNCHANGED <<ffi, driver, upload, budget, ver, PING, loop, tasks, done, reqs, nmsg, failure,
                   last_recv_elapsed, waited, timeout>>

\* the upload job of f sent its last chunk
UploadFinished(f) ==
    /\ loop = "running"
    /\ tasks[f].job = "running"
    /\ tasks' = [tasks EXCEPT ![f].job = "finished"]
    /\ sent' = <<>>
    /\ UNCHANGED <<ffi, driver, upload, budget, ver, PING, loop, done, mgr, sink, events, reqs, chk, calls,
                   nmsg, failure, last_recv_elapsed, waited, timeout>>

\* the upload job of f failed by itself (reading the file)
UploadFailed(f) ==
    /\ loop = "running"
    /\ tasks[f].job = "running"
    /\ LET s1 == IF ver = 5 THEN outgoing_failure_post(Cur, f) ELSE Cur
           st == IF ver = 5 /\ mgr[f] # "None" THEN s1 ELSE failed(s1, f)
       IN  /\ mgr' = st.mgr
           /\ sink' = st.sink
           /\ events' = st.events
           /\ calls' = st.calls
    /\ tasks' = [tasks EXCEPT ![f].job = "finished"]
    /\ sent' = <<>>
    /\ UNCHANGED <<ffi, driver, upload, budget, ver, PING, loop, done, reqs, chk, nmsg, failure,
                   last_recv_elapsed, waited, timeout>>

\* time passes while the loop waits for a frame
Tick ==
    /\ loop = "running"
    /\ last_recv_elapsed < MaxElapsed
    /\ \A d \in timeout : waited < d
    /\ last_recv_elapsed' = last_recv_elapsed + 1
    /\ waited' = waited + 1
    /\ sent' = <<>>
    /\ UNCHANGED <<ffi, driver, upload, budget, ver, PING, loop, tasks, done, mgr, sink, events, reqs, chk,
                   calls, nmsg, failure, timeout>>

\* the receive timeout of this iteration expired
TimedOut ==
    /\ loop = "running"
    /\ \E d \in timeout : waited >= d
    /\ loop' = "failing"
    /\ failure' = "TransferTimeout"
    /\ sent' = <<>>
    /\ UNCHANGED <<ffi, driver, upload, budget, ver, PING, tasks, done, mgr, sink, events, reqs, chk, calls,
                   nmsg, last_recv_elapsed, waited, timeout>>

\* the socket failed
RecvFailed ==
    /\ loop = "running"
    /\ loop' = "failing"
    /\ failure' = "ConnectionLost"
    /\ sent' = <<>>
    /\ UNCHANGED <<ffi, driver, upload, budget, ver, PING, tasks, done, mgr, sink, events, reqs, chk, calls,
                   nmsg, last_recv_elapsed, waited, timeout>>

\* the failed loop stops its tasks and reports the failure of the transfer
Finalize ==
    /\ loop = "failing"
    /\ LET st == finalize_failure(IF ver = 5 THEN on_stop(Cur) ELSE v2_on_stop(Cur),
                                  failure)
       IN  /\ tasks' = st.tasks
           /\ sink' = st.sink
           /\ events' = st.events
    /\ loop' = "failed"
    /\ sent' = <<>>
    /\ UNCHANGED <<ffi, driver, upload, budget, ver, PING, done, mgr, reqs, chk, calls, nmsg, failure,
                   last_recv_elapsed, waited, timeout>>

\* the HandlerLoop, its JoinSet and the receiving end of the outbound queue
\* are dropped; an upload job that was running is aborted, or finds the
\* queue closed at its next chunk
Drop ==
    /\ loop \in {"closed", "failed", "failing"}
    /\ LET st == IF ver = 5 THEN drop_v5(Cur) ELSE drop_v2(Cur)
       IN  /\ tasks' = st.tasks
           /\ events' = st.events
    /\ chk' = [f \in Files |-> -1]
    /\ reqs' = {}
    /\ loop' = "dropped"
    /\ sent' = <<>>
    /\ queue' = <<>>
    /\ orphans' = orphans \cup {f \in Files : tasks[f].job = "running"}
    /\ UNCHANGED <<ffi, driver, produced, written, chunk_ret, budget, ver, PING, done, mgr,
                   sink, calls, nmsg, failure, last_recv_elapsed, waited, timeout>>

-----------------------------------------------------------------------------
(* Outbound queue and the upload jobs' chunks *)

ChunkMsg(f, k) == [type |-> "Chunk", file |-> f, msg |-> "", n |-> k]

\* the receiving end of the queue lives as long as the loop
QueueOpen == loop # "dropped"

\* a queue that takes whatever it is sent
has_capacity_unbounded(q) == TRUE

\* Sender::send returns once the queue has room
has_capacity(q) == Len(q) < QueueDepth

\* a chunk that reports Ok whether or not the queue took the message
chunk_always_ok(q, open, f, k) ==
    [ret |-> "Ok", queue |-> IF open THEN Append(q, ChunkMsg(f, k)) ELSE q]

\* Uploader::chunk: Ok when the queue took the message, Error::Canceled
\* when the queue is closed
chunk(q, open, f, k) ==
    IF open THEN [ret |-> "Ok", queue |-> Append(q, ChunkMsg(f, k))]
    ELSE [ret |-> "Canceled", queue |-> q]

\* the upload job of f hands its next chunk to the queue of its loop
UploadChunk(f) ==
    /\ QueueOpen
    /\ tasks[f].job = "running"
    /\ produced[f] < MaxChunks
    /\ has_capacity(queue)
    /\ LET r == chunk(queue, QueueOpen, f, produced[f] + 1)
       IN  /\ queue' = r.queue
           /\ chunk_ret' = [chunk_ret EXCEPT ![f] = r.ret]
    /\ produced' = [produced EXCEPT ![f] = @ + 1]
    /\ sent' = <<>>
    /\ UNCHANGED <<ffi, driver, written, orphans, budget, ver, PING, loop, tasks, done, mgr,
                   sink, events, reqs, chk, calls, nmsg, failure,
                   last_recv_elapsed, waited, timeout>>

\* an upload job that outlived its loop finds the queue closed at its next
\* chunk and exits, reporting nothing
UploadChunkClosed(f) ==
    /\ ~QueueOpen
    /\ f \in orphans
    /\ LET r == chunk(queue, QueueOpen, f, produced[f] + 1)
       IN  /\ queue' = r.queue
           /\ chunk_ret' = [chunk_ret EXCEPT ![f] = r.ret]
           /\ orphans' = IF r.ret = "Ok" THEN orphans ELSE orphans \ {f}
    /\ sent' = <<>>
    /\ UNCHANGED <<ffi, driver, produced, written, budget, ver, PING, loop, tasks, done, mgr,
                   sink, events, reqs, chk, calls, nmsg, failure,
                   last_recv_elapsed, waited, timeout>>

\* an upload job that outlived its loop is stopped by its abort
JobAborted(f) ==
    /\ f \in orphans
    /\ orphans' = orphans \ {f}
    /\ sent' = <<>>
    /\ UNCHANGED <<ffi, driver, queue, produced, written, chunk_ret, budget, ver, PING, loop,
                   tasks, done, mgr, sink, events, reqs, chk, calls, nmsg,
                   failure, last_recv_elapsed, waited, timeout>>

\* the loop takes the oldest message of the queue and writes it to the socket
WriteChunk ==
    /\ loop = "running"
    /\ queue # <<>>
    /\ sent' = <<Head(queue)>>
    /\ queue' = Tail(queue)
    /\ written' = [written EXCEPT ![Head(queue).file] = @ + 1]
    /\ UNCHANGED <<ffi, driver, produced, orphans, chunk_ret, budget, ver, PING, loop, tasks,
                   done, mgr, sink, events, reqs, chk, calls, nmsg, failure,
                   last_recv_elapsed, waited, timeout>>

-----------------------------------------------------------------------------
(* Reconnection driver *)

\* Option::unwrap_or
unwrap_or(opt, default) == IF opt = {} THEN default ELSE CHOOSE n \in opt : TRUE

\* a conversion that takes the default whatever the option holds
From_Config_default_only(opt) == default_connection_retries

\* impl From<Config> for drop_config::Config: DropConfig::connection_retries
From_Config(opt) == unwrap_or(opt, default_connection_retries)

connection_retries == From_Config(Config_connection_retries)

\* the longest backoff
max_wait == connection_max_retry_interval \div 10

\* a backoff that doubles without a cap
next_wait_uncapped(w) == 2 * w

\* the backoff after a failed re-dial
next_wait(w) == IF 2 * w > max_wait THEN max_wait ELSE 2 * w

ConnectionLost == "ConnectionLost"

\* the loop was torn down by a lost connection and the transfer has not failed
DriverActive ==
    /\ loop = "dropped"
    /\ failure = ConnectionLost
    /\ \A i \in 1 .. Len(events) : events[i].kind # "TransferFailed"

\* the driver waited for its backoff and dialled again; on success the
\* transfer gets a new HandlerLoop on a new channel
Redial(ok) ==
    /\ DriverActive
    /\ attempt < connection_retries
    /\ IF ok
       THEN /\ loop' = "running"
            /\ failure' = ""
            /\ done' = {}
            /\ attempt' = 0
            /\ wait' = initial_wait
            /\ last_recv_elapsed' = 0
            /\ waited' = 0
            /\ timeout' = RecvTimeout(0)
       ELSE /\ attempt' = attempt + 1
            /\ wait' = next_wait(wait)
            /\ UNCHANGED <<loop, failure, done, last_recv_elapsed, waited, timeout>>
    /\ sent' = <<>>
    /\ UNCHANGED <<ffi, upload, Config_connection_retries, config_transfer_idle_lifetime, ledger, budget, ver, PING, tasks,
                   mgr, sink, events, reqs, chk, calls, nmsg>>

\* a file of the transfer that has not reached a terminal state
Unfinished(f) ==
    /\ mgr[f] = "None"
    /\ \A i \in 1 .. Len(events) :
          events[i].file = f => events[i].kind \notin TerminalKinds

\* the retries are used up: the transfer fails and its unfinished files are
\* marked failed in the ledger
GiveUp ==
    /\ DriverActive
    /\ attempt >= connection_retries
    /\ events' = Append(events, XferEv("TransferFailed", 0, ConnectionLost))
    /\ ledger' = [f \in Files |-> IF Unfinished(f) THEN "failed" ELSE ledger[f]]
    /\ sent' = <<>>
    /\ UNCHANGED <<ffi, upload, Config_connection_retries, config_transfer_idle_lifetime, attempt, wait, budget, ver, PING,
                   loop, tasks, done, mgr, sink, reqs, chk, calls, nmsg, failure,
                   last_recv_elapsed, waited, timeout>>

-----------------------------------------------------------------------------
(* The session from its handshake to its end *)

TransferRequestMsg == [type |-> "TransferRequest", file |-> "-", msg |-> "", n |-> 0]

\* a start that sends nothing
HandlerInit_start_silent == <<>>

\* HandlerInit::start: the frames it writes to the socket
HandlerInit_start == <<TransferRequestMsg>>

\* HandlerInit::start, then upgrade: the request is sent and the HandlerLoop
\* built with an empty task map and done set; a failed send ends the session
Handshake(send_ok) ==
    /\ loop = "handshaking"
    /\ sent' = HandlerInit_start
    /\ tasks' = [f \in Files |-> NoTask]
    /\ done' = {}
    /\ IF send_ok
       THEN loop' = "running" /\ failure' = ""
       ELSE loop' = "dropped" /\ failure' = ConnectionLost
    /\ UNCHANGED <<ffi, driver, upload, budget, ver, PING, mgr, sink, events, reqs, chk,
                   calls, nmsg, last_recv_elapsed, waited, timeout>>

\* the loop has stopped handling frames and its session is not yet closed
Draining == loop \in {"closed", "failing", "failed"}

\* a wait for the queue that no deadline ends
drain_over_when_flushed(q, w) == q = <<>>

\* the wait for the outbound queue is over: flushed, or the deadline passed
drain_over(q, w) == q = <<>> \/ w >= drain_deadline

\* time passes while the draining session waits for its queue to flush
DrainTick ==
    /\ Draining
    /\ ~drain_over(queue, waited)
    /\ waited < MaxElapsed
    /\ waited' = waited + 1
    /\ sent' = <<>>
    /\ UNCHANGED <<ffi, driver, upload, budget, ver, PING, loop, tasks, done, mgr, sink,
                   events, reqs, chk, calls, nmsg, failure, last_recv_elapsed,
                   timeout>>

\* the peer takes the oldest message of the queue of a draining session
FlushChunk ==
    /\ Draining
    /\ ~drain_over(queue, waited)
    /\ sent' = <<Head(queue)>>
    /\ queue' = Tail(queue)
    /\ written' = [written EXCEPT ![Head(queue).file] = @ + 1]
    /\ UNCHANGED <<ffi, driver, produced, orphans, chunk_ret, budget, ver, PING, loop, tasks,
                   done, mgr, sink, events, reqs, chk, calls, nmsg, failure,
                   last_recv_elapsed, waited, timeout>>

\* the session closes once the wait for its queue is over
SessionClose ==
    /\ drain_over(queue, waited)
    /\ Drop

-----------------------------------------------------------------------------
(* The pinger *)

\* DropConfig::ping_interval: Duration / 2, in whole units of the clock
ping_interval(lifetime) == lifetime \div 2

\* tokio::time::interval: {p} is a timer of period p; for a zero period the
\* call panics and there is no timer
interval(period) == IF period = 0 THEN {} ELSE {period}

\* HandlerInit::pinger
pinger == interval(ping_interval(config_transfer_idle_lifetime))

\* the handshake of a session together with the making of its pinger
NewPinger ==
    /\ loop = "handshaking"
    /\ sent' = HandlerInit_start
    /\ IF pinger = {}
       THEN loop' = "panicked" /\ failure' = "RuntimePanic"
       ELSE loop' = "running" /\ failure' = ""
    /\ UNCHANGED <<ffi, driver, upload, budget, ver, PING, tasks, done, mgr, sink, events,
                   reqs, chk, calls, nmsg, last_recv_elapsed, waited, timeout>>

-----------------------------------------------------------------------------
(* The embedding API (norddrop/src/ffi) *)

Ops == {"new_transfer", "download", "cancel_transfer", "cancel_file", "reject_file",
        "start", "stop", "purge_transfers", "purge_transfers_until",
        "get_transfers_since"}

\* what a call does when lock() answers that the mutex is poisoned
on_poison(op) ==
    IF op = "new_transfer" THEN "panic"
    ELSE IF op \in {"stop", "purge_transfers", "purge_transfers_until",
                    "get_transfers_since"} THEN "into_inner"
    ELSE "error"

\* a lock that hands out no guard
lock_unguarded(m, t) == m

\* Mutex::lock, once the mutex is free: the caller holds the guard
lock(m, t) == t

\* a thread of the application enters a call
FfiCall(t, op) ==
    /\ pc[t].at = "idle"
    /\ pc' = [pc EXCEPT ![t] = [at |-> "lock", op |-> op]]
    /\ UNCHANGED <<session, mutex, poisoned>>

\* lock() returns: with the guard, or with a PoisonError whose guard the call
\* takes (into_inner) or drops with its error or panic
FfiLock(t) ==
    /\ pc[t].at = "lock"
    /\ mutex = "-"
    /\ IF poisoned /\ on_poison(pc[t].op) # "into_inner"
       THEN /\ pc' = [pc EXCEPT ![t] = [at |-> "idle", op |-> "-"]]
            /\ UNCHANGED mutex
       ELSE /\ pc' = [pc EXCEPT ![t].at = "locked"]
            /\ mutex' = lock(mutex, t)
    /\ UNCHANGED <<session, poisoned>>

\* the call passes its arguments on to the device
FfiDevice(t) ==
    /\ pc[t].at = "locked"
    /\ pc' = [pc EXCEPT ![t].at = "device"]
    /\ UNCHANGED <<session, mutex, poisoned>>

\* the call returns and its guard is dropped: an argument was refused before
\* the device was called, or the device operation ended, in a panic or not
FfiReturn(t, panicked) ==
    /\ pc[t].at \in {"locked", "device"}
    /\ pc' = [pc EXCEPT ![t] = [at |-> "idle", op |-> "-"]]
    /\ mutex' = IF mutex = t THEN "-" ELSE mutex
    /\ poisoned' = (poisoned \/ panicked)
    /\ UNCHANGED session

Next ==
    \/ \E f \in Files, o \in Offsets, a, b \in BOOLEAN : RecvStart(f, o, a, b)
    \/ \E f \in Files, n \in Bytes : RecvProgress(f, n)
    \/ \E f \in Files : RecvDone(f)
    \/ \E f \in Files : RecvCancel(f)
    \/ \E f \in Files \cup {"-"} : RecvError(f)
    \/ \E f \in Files : RecvReject(f)
    \/ \E f \in Files, l \in Offsets : RecvReqChsum(f, l)
    \/ RecvPing
    \/ RecvInvalid
    \/ RecvClose
    \/ \E f \in Files : ApiRejectFile(f)
    \/ \E f \in Files, b \in BOOLEAN : IssueReject(f, b, 0)
    \/ \E f \in Files, b \in BOOLEAN : IssueCancel(f, b, 0)
    \/ LocalClose
    \/ \E f \in Files, b \in BOOLEAN : ChecksumJob(f, b)
    \/ \E f \in Files : UploadFinished(f)
    \/ \E f \in Files : UploadFailed(f)
    \/ RecvFailed
    \/ Finalize
    \/ Drop

Spec == Init /\ [][Next]_vars

\* the session with its clock: frames, requests and the idle timeout
IdleNext ==
    \/ Tick
    \/ TimedOut
    \/ RecvPing
    \/ \E f \in Files, n \in Bytes : RecvProgress(f, n)
    \/ \E f \in Files \cup {"-"} : RecvError(f)
    \/ RecvClose
    \/ \E f \in Files : ApiRejectFile(f)
    \/ \E f \in Files, b \in BOOLEAN, d \in 0 .. 1 : IssueReject(f, b, d)
    \/ \E f \in Files, b \in BOOLEAN, d \in 0 .. 1 : IssueCancel(f, b, d)
    \/ Finalize

SpecIdle == Init /\ [][IdleNext]_vars

\* the session with its upload jobs and the queue between them and the socket
UploadNext ==
    \/ \E f \in Files, o \in Offsets, a, b \in BOOLEAN : RecvStart(f, o, a, b)
    \/ \E f \in Files : UploadChunk(f)
    \/ WriteChunk
    \/ \E f \in Files : UploadFinished(f)
    \/ RecvFailed
    \/ Drop
    \/ \E f \in Files : UploadChunkClosed(f)
    \/ \E f \in Files : JobAborted(f)

SpecUpload == Init /\ [][UploadNext]_vars

\* a v2 session whose peer has one frame more to send
InitV2 ==
    /\ Config_connection_retries = {}
    /\ DefaultConfig
    /\ budget = MaxMsgs + 1
    /\ InitRest
    /\ InitLoop
    /\ ver = 2

\* the v2 session: the frames of its peer, the cancel requests of its
\* application and its upload jobs running to their end
V2Next ==
    \/ \E f \in Files, a \in BOOLEAN : RecvStart(f, 0, a, TRUE)
    \/ \E f \in Files, n \in Bytes : RecvProgress(f, n)
    \/ \E f \in Files : RecvDone(f)
    \/ \E f \in Files : RecvCancel(f)
    \/ \E f \in Files \cup {"-"} : RecvError(f)
    \/ \E f \in Files, b \in BOOLEAN : IssueCancel(f, b, 0)
    \/ \E f \in Files : UploadFinished(f)

SpecV2 == InitV2 /\ [][V2Next]_vars

\* the v2 session and what fails it: a frame that does not deserialize, a
\* Cancel that cannot be sent, the idle timeout, the socket
V2FailureNext ==
    \/ \E f \in Files, a \in BOOLEAN : RecvStart(f, 0, a, TRUE)
    \/ \E f \in Files, b \in BOOLEAN : IssueCancel(f, b, 0)
    \/ RecvInvalid
    \/ RecvFailed
    \/ Tick
    \/ TimedOut
    \/ Finalize

SpecV2Failure == InitV2 /\ [][V2FailureNext]_vars

\* what an application may configure: no retry count, or one of 0 .. MaxRetries
InitReconnect ==
    /\ Config_connection_retries \in {{}} \cup {{n} : n \in 0 .. MaxRetries}
    /\ DefaultConfig
    /\ budget = MaxMsgs
    /\ InitRest
    /\ InitLoop

\* the session with its reconnection driver
ReconnectNext ==
    \/ \E f \in Files, o \in Offsets, a, b \in BOOLEAN : RecvStart(f, o, a, b)
    \/ \E f \in Files, n \in Bytes : RecvProgress(f, n)
    \/ \E f \in Files : RecvDone(f)
    \/ \E f \in Files : RecvCancel(f)
    \/ \E f \in Files : UploadFinished(f)
    \/ RecvFailed
    \/ Drop
    \/ \E ok \in BOOLEAN : Redial(ok)
    \/ GiveUp

SpecReconnect == InitReconnect /\ [][ReconnectNext]_vars

\* the session before HandlerInit::start
InitSession ==
    /\ Config_connection_retries = {}
    /\ DefaultConfig
    /\ budget = MaxMsgs
    /\ InitRest
    /\ loop = "handshaking"
    /\ InitHandler

\* one session from its handshake to its end, with its upload jobs and queue
SessionNext ==
    \/ \E b \in BOOLEAN : Handshake(b)
    \/ \E f \in Files, a \in BOOLEAN : RecvStart(f, 0, a, TRUE)
    \/ \E f \in Files : RecvDone(f)
    \/ \E f \in Files : UploadChunk(f)
    \/ WriteChunk
    \/ RecvClose
    \/ LocalClose
    \/ RecvInvalid
    \/ RecvFailed
    \/ Finalize
    \/ DrainTick
    \/ FlushChunk
    \/ SessionClose

SpecSession == InitSession /\ [][SessionNext]_vars

\* the threads of an application calling into one instance
FfiNext ==
    \/ \E t \in Callers, op \in Ops : FfiCall(t, op)
    \/ \E t \in Callers : FfiLock(t)
    \/ \E t \in Callers : FfiDevice(t)
    \/ \E t \in Callers, p \in BOOLEAN : FfiReturn(t, p)

SpecFfi == Init /\ [][FfiNext]_vars

\* a v5 session of an instance configured with some positive idle lifetime
InitPing ==
    /\ Config_connection_retries = {}
    /\ config_transfer_idle_lifetime \in 1 .. MaxLifetime
    /\ budget = MaxMsgs
    /\ InitRest
    /\ loop = "handshaking"
    /\ InitHandler
    /\ ver = 5

\* the idle session: time passes, the answers to its pings arrive or do not,
\* the peer closes or the socket fails
PingNext ==
    \/ NewPinger
    \/ Tick
    \/ RecvPing
    \/ TimedOut
    \/ RecvFailed
    \/ RecvClose
    \/ Finalize
    \/ Drop

SpecPing == InitPing /\ [][PingNext]_vars

\* the session's control frames and requests: the peer starts, cancels and
\* reports errors, the application rejects (v5) or cancels (v2) files
ControlNext ==
    \/ \E f \in Files, a \in BOOLEAN : RecvStart(f, 0, a, TRUE)
    \/ \E f \in Files : RecvCancel(f)
    \/ \E f \in Files \cup {"-"} : RecvError(f)
    \/ \E f \in Files : ApiRejectFile(f)
    \/ \E f \in Files, b \in BOOLEAN : IssueReject(f, b, 0)
    \/ \E f \in Files, b \in BOOLEAN : IssueCancel(f, b, 0)
    \/ \E f \in Files : UploadFinished(f)

SpecControl == Init /\ [][ControlNext]_vars

\* the same session when time passes and the stopped loop is run to its end;
\* the peer is not obliged to take anything from the queue
SpecSessionFair ==
    /\ SpecSession
    /\ WF_vars(Finalize)
    /\ WF_vars(DrainTick)
    /\ WF_vars(SessionClose)

-----------------------------------------------------------------------------
(* Properties *)

EventsOf(f, kinds) ==
    {i \in 1 .. Len(events) : events[i].file = f /\ events[i].kind \in kinds}

Emitted(f, kind) == EventsOf(f, {kind}) # {}

\* C1: in the v5 client loop at most one terminal event (uploaded, cancelled,
\* rejected, failed) per file reaches the application's event channel.
C1_AtMostOneTerminalEvent ==
    ver = 5 => \A f \in Files : Cardinality(EventsOf(f, TerminalKinds)) <= 1

\* C2: in the v5 client loop, of a Cancel and a Done for the same file with a
\* running upload only the one handled first produces an event: the
\* application never sees both FileCanceled and FileUploaded for a file.
C2_CancelDoneFirstWins ==
    ver = 5 => \A f \in Files : ~(Emitted(f, "FileCanceled") /\ Emitted(f, "FileUploaded"))

\* C3: in the v5 client loop the terminal state the manager records for a
\* file is of the kind of the terminal event emitted for it: Completed is
\* never recorded while FileCanceled was emitted, nor a cancellation while
\* FileUploaded was emitted.
C3_RecordedAgreesWithEmitted ==
    ver = 5 => \A f \in Files :
        /\ ~(mgr[f] = "Completed" /\ Emitted(f, "FileCanceled"))
        /\ ~(mgr[f] = "Canceled" /\ Emitted(f, "FileUploaded"))

\* C4: of the terminal calls the manager takes for one file exactly the first
\* is answered Ok(Some(..)) and fixes the recorded state; every later call
\* is answered without Some and leaves the recorded state as it was.
C4_FirstTerminalCallWins ==
    \A f \in Files :
        /\ calls[f].made = 0 => mgr[f] = "None" /\ calls[f].some = 0
        /\ calls[f].made > 0 => calls[f].some = 1 /\ mgr[f] = calls[f].first

C4_Witness ==
    \E f \in Files :
        calls[f].made = 2 /\ calls[f].first = "Rejected" /\ mgr[f] = "Rejected"

\* Start{f, offset} is handled by the v5 loop in this step
StartStep(f) ==
    /\ ver = 5
    /\ loop = "running"
    /\ nmsg' = nmsg + 1
    /\ \E o \in Offsets, a, b \in BOOLEAN : RecvStart(f, o, a, b)

\* C5 as claimed: a Start for a file whose upload task is still running is
\* answered with Error{f, "Transfer already in progress"}, the task stays as
\* it is and the loop goes on.
C5_StartWhileUploading ==
    [][\A f \in Files :
          tasks[f].job = "running" /\ StartStep(f)
          => /\ sent' = <<ErrorMsg(f, AlreadyInProgress)>>
             /\ tasks'[f] = tasks[f]
             /\ loop' = "running"]_vars

\* C5 as amended: a Start for a file whose upload task is still running is
\* answered with Error{f, msg}, where msg is "Transfer already in progress"
\* unless the manager already holds f terminal (then it is the error of the
\* not-terminated check); the task map, the done set and the sinks stay as
\* they are and nothing is emitted; the loop goes on unless sending the
\* Error failed.
C5_StartWhileUploadingAmended ==
    [][\A f \in Files :
          tasks[f].job = "running" /\ StartStep(f)
          => /\ sent' = <<ErrorMsg(f, IF mgr[f] = "None" THEN AlreadyInProgress
                                                         ELSE FileTerminated)>>
             /\ tasks' = tasks
             /\ done' = done
             /\ sink' = sink
             /\ events' = events
             /\ loop' = "running" \/ (loop' = "failing" /\ failure' = "SendError")]_vars

C5_Witness ==
    /\ ver = 5
    /\ loop = "running"
    /\ \E f \in Files :
          tasks[f].job = "running" /\ sent = <<ErrorMsg(f, AlreadyInProgress)>>

\* C6: once the manager holds a file terminal, a Start for it in the v5 loop
\* starts no upload and leaves the task map as it is; the loop answers
\* with an Error for that file.
C6_NoUploadOnceTerminal ==
    [][\A f \in Files :
          mgr[f] # "None" /\ StartStep(f)
          => /\ tasks' = tasks
             /\ Len(sent') = 1
             /\ sent'[1].type = "Error"
             /\ sent'[1].file = f]_vars

C6_Witness ==
    /\ ver = 5
    /\ \E f \in Files :
          /\ mgr[f] = "Rejected"
          /\ tasks[f] = NoTask
          /\ calls[f] = [made |-> 1, some |-> 1, first |-> "Rejected"]
          /\ sent = <<ErrorMsg(f, FileTerminated)>>

\* C7: the progress byte counts reported to the application for a file are
\* monotone non-decreasing and never above the file's length (v5 and v2).
C7_ProgressMonotoneBounded ==
    \A i, j \in 1 .. Len(events) :
        events[i].kind = "FileProgress"
        => /\ events[i].n <= FileSize
           /\ (i < j /\ events[j].kind = "FileProgress" /\ events[j].file = events[i].file)
              => events[i].n <= events[j].n

TransferCanceledByPeer == XferEv("TransferCanceled", 1, "")

NonTerminal(f) == ~sink[f] /\ mgr[f] = "None"

\* C8 as claimed: on a Close frame of the peer every file that was not
\* terminal is marked terminal, one TransferCanceled(by_peer) is emitted and
\* the loop stops.
C8_PeerClose ==
    [][RecvClose
       => /\ \A f \in Files : NonTerminal(f) => sink'[f]
          /\ events' = Append(events, TransferCanceledByPeer)
          /\ loop' = "closed"]_vars

\* C8 as amended: on a Close frame of the peer the loop empties its task
\* map and silently makes the sink of every file that had a task terminal
\* (files without a task are left as they were, and nothing is recorded in
\* the manager), emits exactly one TransferCanceled(by_peer = true), and
\* handles no further frame.
C8_PeerCloseAmended ==
    [][/\ RecvClose
          => /\ \A f \in Files :
                  /\ tasks'[f] = NoTask
                  /\ tasks[f] # NoTask => sink'[f]
                  /\ tasks[f] = NoTask => sink'[f] = sink[f]
             /\ mgr' = mgr
             /\ events' = Append(events, TransferCanceledByPeer)
             /\ Cardinality(EventsOf("-", {"TransferCanceled"}))' = 1
             /\ loop' = "closed"
       /\ loop = "closed" => nmsg' = nmsg /\ loop' \in {"closed", "dropped"}]_vars

C8_Witness ==
    /\ loop = "closed"
    /\ events # <<>>
    /\ events[Len(events)] = TransferCanceledByPeer
    /\ \E f, g \in Files :
          /\ sink[f] /\ tasks[f] = NoTask /\ EventsOf(f, TerminalKinds) = {}
          /\ NonTerminal(g)

\* C9: within a transfer no event of a file (progress or terminal) is
\* delivered after the transfer's TransferCanceled or TransferFailed.
C9_NoFileEventAfterTransferEvent ==
    \A i, j \in 1 .. Len(events) :
        i < j /\ events[i].kind \in XferKinds => events[j].file = "-"

Clamp(x) == IF x < 0 THEN 0 ELSE x

FrameStep ==
    \/ RecvPing
    \/ RecvClose
    \/ \E f \in Files, n \in Bytes : RecvProgress(f, n)
    \/ \E f \in Files \cup {"-"} : RecvError(f)

LastKind(f) ==
    LET is == EventsOf(f, TerminalKinds \cup {"FileProgress", "FilePaused"})
    IN  IF is = {} THEN ""
        ELSE events[CHOOSE i \in is : \A j \in is : j <= i].kind

\* the v5 loop is dropped with its connection lost, without on_close or on_stop
LostTeardown == ver = 5 /\ loop = "failing" /\ loop' = "dropped" /\ Drop

\* the events this step delivered
NewEvents == {i \in 1 .. Len(events') : i > Len(events)}

ProgressOf(f) == EventsOf(f, {"FileProgress"})

\* the position of the last Progress delivered for f
LastProgress(f) ==
    events[CHOOSE i \in ProgressOf(f) : \A j \in ProgressOf(f) : j <= i].n

\* the first Start{f, o} of a connection for a file the last teardown paused
ResumeStep(f, o) ==
    /\ ver = 5
    /\ loop = "running"
    /\ nmsg' = nmsg + 1
    /\ LastKind(f) = "FilePaused"
    /\ tasks[f].job # "running"
    /\ attempt <= connection_retries
    /\ \E b \in BOOLEAN : RecvStart(f, o, TRUE, b)

\* C12 as claimed: after a reconnect the upload spawned for Start{f, offset}
\* begins at the offset of the Start, and this offset is the position of the
\* last Progress acknowledged for f before the disconnect.
C12_ResumeAtLastProgress ==
    [][\A f \in Files, o \in Offsets :
          ResumeStep(f, o) /\ ProgressOf(f) # {}
          => /\ Uploader_offset(tasks'[f]) = o
             /\ o = LastProgress(f)]_vars

\* C12 as amended: after a reconnect the upload spawned for Start{f, offset}
\* begins at the offset of the Start, whatever Progress the loop was sent
\* for f before the disconnect; the loop keeps running and answers nothing.
C12_ResumeAtStartOffset ==
    [][\A f \in Files, o \in Offsets :
          ResumeStep(f, o)
          => /\ Uploader_offset(tasks'[f]) = o
             /\ tasks'[f].job = "running"
             /\ events' = events
             /\ sent' = <<>>]_vars

C12_Witness ==
    /\ ver = 5
    /\ loop = "running"
    /\ \E f \in Files :
          /\ LastKind(f) = "FilePaused"
          /\ ProgressOf(f) # {}
          /\ LastProgress(f) = 0
          /\ Uploader_offset(tasks[f]) = FileSize
          /\ tasks[f].job = "running"

\* C13: every checksum job the v5 loop spawned for a ReqChsum{f, limit}
\* enqueues exactly one reply while the queue is there: ReportChsum{f, limit}
\* or Error{f}; no other step enqueues a report; the job goes without a
\* reply only when the loop and its queue are dropped. The ReqChsum itself
\* is answered by nothing in the loop's own step, which goes on running and
\* can take the next frame while the job is pending.
C13_OneReplyPerReqChsum ==
    [][/\ \A f \in Files :
             chk[f] # -1 /\ chk'[f] = -1
             => \/ loop' = "dropped" /\ loop # "dropped" /\ sent' = <<>>
                \/ /\ Len(sent') = 1
                   /\ \/ sent'[1] = ReportChsum(f, chk[f])
                      \/ sent'[1].type = "Error" /\ sent'[1].file = f
                   /\ loop' = loop
       /\ \A i \in 1 .. Len(sent') :
             sent'[i].type = "ReportChsum"
             => chk[sent'[i].file] = sent'[i].n /\ chk'[sent'[i].file] = -1
       /\ \A f \in Files :
             chk[f] = -1 /\ chk'[f] # -1
             => sent' = <<>> /\ loop' = "running"
       /\ \A f \in Files :
             chk[f] # -1 /\ loop = "running" /\ nmsg < budget
             => ENABLED RecvPing]_vars

C13_Witness ==
    /\ ver = 5
    /\ loop = "running"
    /\ chk["f1"] = FileSize
    /\ sent = <<ErrorMsg("f2", ChecksumFailed)>>
    /\ nmsg = 2
    /\ ENABLED RecvPing

\* a chunk call of the upload job of f
ChunkStep(f) ==
    /\ chunk_ret'[f] # ""
    /\ UploadChunk(f) \/ UploadChunkClosed(f)

\* C14: Uploader::chunk returns Ok exactly when the queue took the chunk
\* message; on a closed queue it returns Error::Canceled, the queue is left
\* as it was, and the upload job exits without an event for the file
\* reaching the application and without anything recorded for it.
C14_ChunkOkIffAccepted ==
    [][\A f \in Files :
          ChunkStep(f)
          => /\ chunk_ret'[f] \in {"Ok", "Canceled"}
             /\ chunk_ret'[f] = "Ok"
                  <=> QueueOpen /\ queue' = Append(queue, ChunkMsg(f, produced[f] + 1))
             /\ ~QueueOpen
                  => /\ chunk_ret'[f] = "Canceled"
                     /\ queue' = queue
                     /\ f \notin orphans'
                     /\ events' = events
                     /\ mgr' = mgr
                     /\ sink' = sink
                     /\ ledger' = ledger]_vars

C14_Witness ==
    /\ loop = "dropped"
    /\ \E f \in Files :
          /\ chunk_ret[f] = "Canceled"
          /\ produced[f] > 0
          /\ f \notin orphans
          /\ EventsOf(f, TerminalKinds) = {}

\* the chunks of f waiting in the queue, oldest first, are the next ones to write
InOrder(q, w) ==
    \A i \in 1 .. Len(q) :
        q[i].n = w[q[i].file] + 1 + Cardinality({j \in 1 .. i - 1 : q[j].file = q[i].file})

\* C15: with the upload jobs of the transfer's files sharing the outbound
\* queue, never more than QueueDepth messages wait in it; a job whose chunk
\* does not fit hands over nothing until the writer took a message; the
\* writer takes the oldest message, and the chunks of one file reach the
\* socket in the order its job produced them, none left out.
C15_QueueBoundedAndOrdered ==
    [][/\ Len(queue) <= QueueDepth /\ Len(queue') <= QueueDepth
       /\ InOrder(queue, written) /\ InOrder(queue', written')
       /\ \A f \in Files :
             /\ produced[f] = written[f] + Cardinality({i \in 1 .. Len(queue) : queue[i].file = f})
                  \/ loop = "dropped"
             /\ Len(queue) = QueueDepth => produced'[f] = produced[f]
             /\ written'[f] # written[f]
                  => /\ written'[f] = written[f] + 1
                     /\ sent' = <<ChunkMsg(f, written'[f])>>
                     /\ queue # <<>> /\ sent'[1] = Head(queue) /\ queue' = Tail(queue)]_vars

C15_Witness ==
    /\ Len(queue) = QueueDepth
    /\ \A f \in Files : written[f] > 0 /\ produced[f] = MaxChunks
    /\ \E i, j \in 1 .. Len(queue) : i < j /\ queue[i].file = "f2" /\ queue[j].file = "f1"
    /\ \E i, j \in 1 .. Len(queue) : i < j /\ queue[i].file = "f1" /\ queue[j].file = "f2"

\* the loop handles Error{file: Some(f)}, Cancel{f} or Reject{f} of the peer
FileMsgStep(f) ==
    /\ loop = "running"
    /\ nmsg' = nmsg + 1
    /\ RecvError(f) \/ RecvCancel(f) \/ RecvReject(f)

\* C16: a file-level Error, Cancel or Reject for f (v5 and v2) leaves the
\* task, the done-set membership, the sink and the recorded state of every
\* other file as they were, delivers events for f only and none for the
\* transfer, and the loop keeps running; a Done that comes for another file
\* with a live task afterwards yields that file's FileUploaded.
C16_FileMessageTouchesOneFile ==
    [][/\ \A f \in Files :
             FileMsgStep(f)
             => /\ \A g \in Files \ {f} :
                      /\ tasks'[g] = tasks[g]
                      /\ (g \in done') = (g \in done)
                      /\ sink'[g] = sink[g]
                      /\ mgr'[g] = mgr[g]
                /\ Len(events') >= Len(events)
                /\ SubSeq(events', 1, Len(events)) = events
                /\ \A i \in NewEvents : events'[i].file = f
                /\ loop' = "running"
       /\ \A g \in Files :
             /\ loop = "running"
             /\ nmsg' = nmsg + 1
             /\ \E f \in Files \ {g} : EventsOf(f, TerminalKinds) # {}
             /\ tasks[g] # NoTask /\ ~sink[g]
             /\ RecvDone(g)
             => events' = Append(events, FileEv("FileUploaded", g, 0))]_vars

C16_Witness ==
    /\ loop = "running"
    /\ Len(events) = 2
    /\ events[1].file = "f1" /\ events[1].kind \in {"FileFailed", "FileCanceled", "FileRejected"}
    /\ events[2] = FileEv("FileUploaded", "f2", 0)
    /\ sink["f2"]
    /\ nmsg = 3

\* the wait before the re-dial that follows k failed ones, in units of 100 ms
ExpectedWait(k) == IF k = 0 THEN 2 ELSE IF k = 1 THEN 4 ELSE IF k = 2 THEN 8 ELSE 10

TransferFailedEvents == EventsOf("-", {"TransferFailed"})

\* C17: after a lost connection the driver waits 200 ms before the first
\* re-dial and twice as long after each failed one, never longer than
\* connection_max_retry_interval / 10 (1 s by default); it makes at most
\* connection_retries re-dials (5 when none is configured) and then delivers
\* TransferFailed(ConnectionLost), once, after which it dials no more.
C17_BackoffAndRetries ==
    [][/\ max_wait = 10
       /\ Config_connection_retries = {} => connection_retries = 5
       /\ wait = ExpectedWait(attempt) /\ wait' = ExpectedWait(attempt')
       /\ wait <= max_wait /\ wait' <= max_wait
       /\ attempt <= connection_retries /\ attempt' <= connection_retries
       /\ Cardinality(TransferFailedEvents') <= 1
       /\ attempt' = attempt + 1 => wait' = 2 * wait \/ wait' = max_wait
       /\ TransferFailedEvents' # TransferFailedEvents
             => /\ attempt = connection_retries
                /\ events' = Append(events, XferEv("TransferFailed", 0, ConnectionLost))
       /\ TransferFailedEvents # {} => attempt' = attempt /\ loop' = loop]_vars

C17_Witness ==
    /\ Config_connection_retries = {}
    /\ attempt = 5
    /\ wait = 10
    /\ events # <<>>
    /\ events[Len(events)] = XferEv("TransferFailed", 0, ConnectionLost)
    /\ loop = "dropped"

\* a file whose upload was running when the connection was lost
InFlight(f) == f \in orphans /\ Unfinished(f)

\* C18: a configured connection_retries is passed through as it is, 0
\* included, and the default of 5 is taken only when none is configured;
\* with 0 retries the driver never dials again after a lost connection: its
\* one step delivers TransferFailed(ConnectionLost) and marks the files that
\* were in flight failed in the ledger.
C18_ZeroRetries ==
    [][/\ \A n \in 0 .. MaxRetries :
             Config_connection_retries = {n} => connection_retries = n
       /\ Config_connection_retries = {} => connection_retries = 5
       /\ Config_connection_retries = {0}
             => /\ attempt = 0 /\ attempt' = 0
                /\ ~(loop = "dropped" /\ loop' # "dropped")
                /\ DriverActive
                     => /\ events' = Append(events, XferEv("TransferFailed", 0, ConnectionLost))
                        /\ \A f \in Files : InFlight(f) => ledger'[f] = "failed"]_vars

C18_Witness ==
    /\ Config_connection_retries = {0}
    /\ loop = "dropped"
    /\ attempt = 0
    /\ Cardinality(TransferFailedEvents) = 1
    /\ \E f \in Files : f \in orphans /\ ledger[f] = "failed"

\* C19: in the v2 client loop at most one terminal event per file
\* (FileUploadSuccess, FileUploadCancelled, FileUploadFailed) reaches the
\* application, whatever frames and cancel requests come, a Start after a
\* Done, Cancel or Error included.
C19_V2AtMostOneTerminalEvent ==
    ver = 2 => \A f \in Files : Cardinality(EventsOf(f, TerminalKinds)) <= 1

\* C20: in the v2 loop every upload starts at byte 0, and so does the
\* upload a Start spawns after the connection was lost while the file was
\* being sent, whatever position was acknowledged before.
C20_V2StartsAtZero ==
    [][/\ ver = 2 => \A f \in Files : tasks[f].offset = 0 /\ tasks'[f].offset = 0
       /\ \A f \in Files :
             /\ ver = 2
             /\ loop = "running"
             /\ nmsg' = nmsg + 1
             /\ f \in orphans
             /\ tasks[f].job # "running"
             /\ RecvStart(f, 0, TRUE, TRUE)
             => tasks'[f] = NewTask(0)]_vars

C20_Witness ==
    /\ ver = 2
    /\ loop = "running"
    /\ nmsg = 3
    /\ \E f \in Files :
          /\ f \in orphans
          /\ events = <<FileEv("FileProgress", f, FileSize)>>
          /\ tasks[f] = NewTask(0)

SessionState ==
    CASE loop = "handshaking" -> "Handshaking"
      [] loop = "running" -> "Running"
      [] Draining -> "Draining"
      [] loop = "dropped" -> "Closed"

Rank(s) ==
    CASE s = "Handshaking" -> 0
      [] s = "Running" -> 1
      [] s = "Draining" -> 2
      [] s = "Closed" -> 3

\* C22: a session starts in Handshaking and only moves forward along
\* Handshaking, Running, Draining, Closed: no state is entered again once it
\* was left and Closed is never left; nothing is sent or handled before the
\* handshake, whose step sends the TransferRequest as the first frame.
C22_SessionMovesForward ==
    /\ SessionState = "Handshaking"
    /\ [][/\ Rank(SessionState') >= Rank(SessionState)
          /\ SessionState = "Closed" => SessionState' = "Closed"
          /\ SessionState = "Handshaking"
                => /\ sent = <<>> /\ nmsg = 0
                   /\ SessionState' # "Handshaking" => sent' = <<TransferRequestMsg>>]_vars

C22_Witness ==
    /\ SessionState = "Closed"
    /\ failure = "BadMessage"
    /\ nmsg = 3
    /\ \E i \in 1 .. Len(events) : events[i].kind = "TransferFailed"

\* C23: a session that entered Draining reaches Closed, whether or not the
\* peer ever takes the messages left in the outbound queue: the wait for the
\* queue ends at the drain deadline, and on_stop ends for every number of
\* live tasks.
C23_DrainingReachesClosed ==
    (SessionState = "Draining") ~> (SessionState = "Closed")

\* closed at the deadline with the queue unflushed and both files' tasks stopped
C23_Witness ==
    /\ SessionState = "Closed"
    /\ waited = drain_deadline
    /\ \E f \in Files : produced[f] > written[f]
    /\ \A f \in Files : sink[f] /\ tasks[f] = NoTask

C27_DeviceUnderMutex ==
    /\ \A t \in Callers : pc[t].at \in {"locked", "device"} => mutex = t
    /\ \A t, u \in Callers : t # u => ~(pc[t].at = "device" /\ pc[u].at = "device")

\* one caller in the device on a poisoned mutex, the other waiting for the lock
C27_Witness ==
    /\ poisoned
    /\ pc["t1"] = [at |-> "device", op |-> "stop"]
    /\ pc["t2"] = [at |-> "lock", op |-> "download"]
    /\ mutex = "t1"

\* Done{f} is handled by the v5 loop in this step
DoneStep(f) ==
    /\ ver = 5
    /\ loop = "running"
    /\ nmsg' = nmsg + 1
    /\ RecvDone(f)

FileUploaded(f) == FileEv("FileUploaded", f, 0)

\* C28: in the v5 loop a Done{f} puts f into the done set and delivers at
\* most one FileUploaded for f: through the sink of the task when there is
\* one, directly when there is none and f is not in the done set; a Done
\* for a file in the done set finds no task and delivers nothing, and f leaves
\* the done set only with a Start that spawned its upload. So Done frames
\* with no Start between them yield FileUploaded at most once.
C28_RepeatedDoneEmitsOnce ==
    [][\A f \in Files :
          /\ DoneStep(f)
             => /\ f \in done'
                /\ tasks'[f] = NoTask
                /\ f \in done => tasks[f] = NoTask /\ events' = events
                /\ f \notin done /\ tasks[f] = NoTask
                     => events' = Append(events, FileUploaded(f))
                /\ f \notin done /\ tasks[f] # NoTask
                     => events' = IF sink[f] THEN events ELSE Append(events, FileUploaded(f))
          /\ ver = 5 /\ f \in done /\ f \notin done'
             => /\ tasks[f].job # "running" /\ tasks'[f].job = "running"
                /\ \E o \in Offsets, b \in BOOLEAN : RecvStart(f, o, TRUE, b)]_vars

\* two Done frames for a file that never had a task, one FileUploaded
C28_Witness ==
    /\ ver = 5
    /\ loop = "running"
    /\ nmsg = 2
    /\ \E f \in Files :
          /\ events = <<FileUploaded(f)>>
          /\ f \in done
          /\ calls[f] = [made |-> 2, some |-> 1, first |-> "Completed"]
          /\ mgr[f] = "Completed"

\* C29: in the v5 loop no file is in the done set and in the task map at
\* once, before and after every step: a Done leaves its file without a task
\* and in the done set, a file leaves the done set only in a step that leaves
\* it with a running task, and a Start that failed (answered with an Error)
\* leaves the task map and the done set as they were.
C29_TasksAndDoneDisjoint ==
    [][ver = 5
       => /\ \A f \in done : tasks[f] = NoTask
          /\ \A f \in done' : tasks'[f] = NoTask
          /\ \A f \in done \ done' : tasks'[f].job = "running"
          /\ \A f \in Files :
                /\ (tasks'[f] = NoTask /\ f \in done') \/ ~DoneStep(f)
                /\ \/ tasks' = tasks /\ done' = done
                   \/ sent' = <<>>
                   \/ ~StartStep(f)]_vars

\* a Start for a file in the done set failed and left it there, without a task
C29_Witness ==
    /\ ver = 5
    /\ loop = "running"
    /\ \E f, g \in Files :
          /\ f \in done
          /\ tasks[f] = NoTask
          /\ sent = <<ErrorMsg(f, FileTerminated)>>
          /\ g \notin done
          /\ tasks[g].job = "running"

\* the checksum job spawned for ReqChsum{f, limit} runs in this step
ChecksumStep(f) ==
    /\ chk[f] # -1
    /\ chk'[f] = -1
    /\ \E b \in BOOLEAN : ChecksumJob(f, b)

\* C30: the checksum job of a file the manager holds terminal enqueues no
\* ReportChsum: it fails the not-terminated check, its failure post is
\* refused by the manager, it delivers no event and records nothing, and it
\* enqueues Error{file: Some(f)}. A checksum job delivers FileFailed only
\* when its failure post was taken by the manager.
C30_NoReportForTerminalFile ==
    [][\A f \in Files :
          ChecksumStep(f)
          => /\ mgr[f] # "None"
                => /\ sent' = <<ErrorMsg(f, FileTerminated)>>
                   /\ calls'[f] = Called(calls[f], "Failed", "Err")
                   /\ mgr' = mgr
                   /\ events' = events
                   /\ sink' = sink
             /\ events' # events
                => /\ mgr[f] = "None" /\ mgr'[f] = "Failed"
                   /\ calls'[f] = Called(calls[f], "Failed", "Some")
                   /\ events' = Append(events, FileEv("FileFailed", f, 0))
                   /\ sent' = <<ErrorMsg(f, ChecksumFailed)>>]_vars

\* Reject{f}, then ReqChsum{f}: the job answered with the Error
C30_Witness ==
    /\ ver = 5
    /\ nmsg = 2
    /\ \E f \in Files :
          /\ events = <<FileEv("FileRejected", f, 1)>>
          /\ mgr[f] = "Rejected"
          /\ calls[f] = [made |-> 2, some |-> 1, first |-> "Rejected"]
          /\ chk[f] = -1
          /\ sent = <<ErrorMsg(f, FileTerminated)>>

\* C31: a close empties the task map in both loops. The v5 loop delivers the
\* transfer's cancelled event when the peer closed and delivers nothing when
\* the close is its own; the v2 loop delivers TransferCanceled(by_peer) for
\* a close of either side.
C31_CloseEventOnlyByPeer ==
    [][/\ RecvClose \/ LocalClose => \A f \in Files : tasks'[f] = NoTask
       /\ RecvClose => events' = Append(events, XferEv("TransferCanceled", 1, ""))
       /\ LocalClose
          => events' = IF ver = 5 THEN events
                       ELSE Append(events, XferEv("TransferCanceled", 0, ""))]_vars

\* a v5 loop closed by its own side: its running task is gone, its file's
\* sink took the silent stop and no event was delivered for the close
C31_Witness ==
    /\ ver = 5
    /\ loop = "closed"
    /\ nmsg = 1
    /\ \A i \in 1 .. Len(events) : events[i].kind # "TransferCanceled"
    /\ \E f \in Files :
          /\ tasks[f] = NoTask
          /\ sink[f]
          /\ EventsOf(f, TerminalKinds) = {}

\* a request of the application for f was served in this step
RequestStep(f, send_ok) == IssueReject(f, send_ok, 0) \/ IssueCancel(f, send_ok, 0)

\* C32: a request whose control frame (v5 Reject, v2 Cancel) could not be
\* sent returns the send error and leaves the handler as it was: the task map,
\* the sinks, the events, the manager and the done set are unchanged. A
\* request whose frame was sent leaves the file without a task and with its
\* sink stopped when the task was running.
C32_FailedSendLeavesTask ==
    [][\A f \in Files :
          /\ RequestStep(f, FALSE)
             => /\ tasks' = tasks
                /\ sink' = sink
                /\ events' = events
                /\ mgr' = mgr
                /\ done' = done
                /\ failure' = "SendError"
                /\ loop' = "failing"
          /\ RequestStep(f, TRUE)
             => /\ tasks'[f] = NoTask
                /\ tasks[f].job = "running" => sink'[f]
                /\ failure' = ""
                /\ loop' = "running"]_vars

\* the Reject for a file that was being uploaded could not be sent: the
\* upload's task is still there and running, its sink has taken no stop
C32_Witness ==
    /\ ver = 5
    /\ loop = "failing"
    /\ failure = "SendError"
    /\ \E f \in Files :
          /\ sent = <<RejectMsg(f)>>
          /\ tasks[f].job = "running"
          /\ f \notin reqs

\* the v5 loop handles Cancel{f} of the peer in this step
CancelStep(f) == ver = 5 /\ RecvCancel(f)

\* C33: in the v5 loop a Cancel{f} of the peer leaves f without a task and
\* every other task as it was, and records nothing in the manager. When the
\* job of f was still running its sink takes cancelled(by_peer = true), which
\* delivers FileCanceled unless the sink was stopped before; when the job had
\* finished or f had no task, no sink changes and nothing is delivered.
C33_CancelRemovesTask ==
    [][\A f \in Files :
          CancelStep(f)
          => /\ tasks' = [tasks EXCEPT ![f] = NoTask]
             /\ mgr' = mgr
             /\ calls' = calls
             /\ IF tasks[f].job = "running"
                THEN /\ sink' = [sink EXCEPT ![f] = TRUE]
                     /\ events' = IF sink[f] THEN events
                                  ELSE Append(events, FileEv("FileCanceled", f, 1))
                ELSE sink' = sink /\ events' = events]_vars

\* the peer cancelled a running upload of f: FileCanceled(by_peer) was
\* delivered, f has no task and the manager holds nothing for it, while the
\* finished task of another file is still in the map
C33_Witness ==
    /\ ver = 5
    /\ loop = "running"
    /\ \E f, g \in Files :
          /\ events = <<FileEv("FileCanceled", f, 1)>>
          /\ tasks[f] = NoTask
          /\ mgr[f] = "None"
          /\ tasks[g].job = "finished"

\* the v2 loop handles Start{f} in this step; spawn_ok: FileTask::new returned Ok
DownloadStep(f, spawn_ok) == ver = 2 /\ RecvStart(f, 0, spawn_ok, TRUE)

\* C34 as claimed: in the v2 loop a Start{f} sends nothing; it leaves a
\* running task of f in place, and for a file with a finished task or with no
\* task it puts a new task into the map.
C34_V2StartReplacesOrInserts ==
    [][\A f \in Files, a \in BOOLEAN :
          DownloadStep(f, a)
          => /\ sent' = <<>>
             /\ tasks' = IF tasks[f].job = "running" THEN tasks
                         ELSE [tasks EXCEPT ![f] = NewTask(0)]]_vars

\* C34 as amended: in the v2 loop a Start{f} sends nothing, delivers nothing
\* and leaves the loop running. A running task of f stays in place; for a file
\* with a finished task or with no task a new task is put into the map when
\* FileTask::new succeeds, and the map is left as it was (the finished task,
\* or no entry) when it fails. No other file's task changes.
C34_V2StartKeepsRunningTask ==
    [][\A f \in Files, a \in BOOLEAN :
          DownloadStep(f, a)
          => /\ sent' = <<>>
             /\ events' = events
             /\ loop' = "running"
             /\ tasks' = IF tasks[f].job = "running" \/ ~a THEN tasks
                         ELSE [tasks EXCEPT ![f] = NewTask(0)]]_vars

\* the v2 loop has handled nothing but Starts, as many as its peer sends:
\* every file has a task that runs from the beginning of the file, whether
\* its later Starts met it running or finished
C34_Witness ==
    /\ ver = 2
    /\ loop = "running"
    /\ nmsg = MaxMsgs + 1
    /\ events = <<>>
    /\ sent = <<>>
    /\ \A f \in Files : tasks[f] = NewTask(0)

\* the error finalize_failure is expected to report for the loop's failure
ReportedError ==
    CASE failure \in {"TransferTimeout", "ConnectionLost"} -> failure
      [] failure = "SendError" -> WsError
      [] OTHER -> BadTransferState

\* C35: when the v2 loop has failed, its finalize_failure delivers one
\* TransferFailed, the only one of the transfer: with the loop's own error
\* when that is an error of the crate (the idle timeout, the lost
\* connection), with the converted socket error when a send failed, and with
\* BadTransferState when the failure is of another type (a frame that does
\* not deserialize).
C35_V2FinalizeReportsOnce ==
    [][ver = 2 /\ Finalize
       => /\ events' = Append(events, XferEv("TransferFailed", 0, ReportedError))
          /\ Cardinality(EventsOf("-", {"TransferFailed"}))' = 1
          /\ loop' = "failed"]_vars

\* a v2 loop that failed on a frame it could not deserialize has reported
\* BadTransferState, after it stopped the running upload without an event
C35_Witness ==
    /\ ver = 2
    /\ loop = "failed"
    /\ failure = "BadMessage"
    /\ events = <<XferEv("TransferFailed", 0, BadTransferState)>>
    /\ \E f \in Files : sink[f] /\ tasks[f] = NoTask

\* C37: an Error of the peer that names no file changes nothing in the loop,
\* v5 or v2: the task map, the done set, the sinks, the manager and the
\* events are as before, nothing is sent, and the loop goes on running.
C37_ErrorWithoutFileIsIgnored ==
    [][RecvError("-")
       => /\ tasks' = tasks
          /\ done' = done
          /\ sink' = sink
          /\ mgr' = mgr
          /\ calls' = calls
          /\ events' = events
          /\ sent' = <<>>
          /\ failure' = ""
          /\ loop' = "running"]_vars

\* after the Start of f and two more frames, which an Error without a file
\* may be, the upload of f still runs and nothing was delivered or recorded
C37_Witness ==
    /\ loop = "running"
    /\ nmsg = MaxMsgs
    /\ events = <<>>
    /\ sent = <<>>
    /\ \A f \in Files : mgr[f] = "None" /\ ~sink[f]
    /\ \E f \in Files : tasks[f].job = "running"

====
